---- MODULE Spec2Model ----
(***************************************************************************)
(* Reference (`ref`) declarations and expressions for ECMAScript, as       *)
(* described by README.md: the semantic rules of the sections              *)
(* "`ref` and `const ref` expressions", "`ref` and `const ref`             *)
(* declarations", "`ref` assignments", the worked examples, and the        *)
(* desugaring (__ref / __elemRef) the README gives for them.               *)
(*                                                                         *)
(* The state is the binding store of a running program (plain variables    *)
(* with their TDZ state, heap objects), the Reference objects created so   *)
(* far, and the `ref` declared bindings.  Every operation of the proposal  *)
(* is an operator from a store to a new store and a completion (a value, a *)
(* Reference, or a thrown error); the actions apply them.                  *)
(***************************************************************************)
EXTENDS Integers, FiniteSets, Sequences, TLC

VARIABLES env, heap, refs, binds, last, gulp

vars == <<env, heap, refs, binds, last, gulp>>

\* ---- bounds of the model
MaxVal == 1      \* numbers stored are 0..MaxVal
MaxRefs == 2     \* Reference objects alive at once
MaxCount == 2    \* the side-effect counter runs 0..MaxCount
NumObjs == 2     \* heap objects
MaxArg == 2      \* x, y, z of the max example hold 0..MaxArg
MaxCode == 2     \* exit codes of a subprocess are 0..MaxCode

\* ---- the build script (gulpfile.js): the state of a run of `gulp update-pages`
\*   gutil     whether the free identifier gutil resolves when exec runs (the
\*             file neither declares nor requires it)
\*   checkout, build, update, checkin, pages   the state of each task
\*             (pages is the task update-pages itself); "then" is a task whose
\*             first .then callback is queued; "pull", "add", "commit", "push"
\*             name the git subprocess a task is waiting for
\*   stopped   a task has failed: the run starts no further task
\*   log       the git subprocesses spawned, in order
\*   codes     how the subprocesses that ended did so, in order (see Endings)
Gulp0(g) ==
    [gutil |-> g, checkout |-> "idle", build |-> "idle", update |-> "idle",
     checkin |-> "idle", pages |-> "idle", stopped |-> FALSE, log |-> <<>>, codes |-> <<>>]

\* ---- values
Undef == [t |-> "undefined", v |-> 0]
Null == [t |-> "null", v |-> 0]
Num(n) == [t |-> "number", v |-> n]
Obj(o) == [t |-> "object", v |-> o]

Nums == {Num(n) : n \in 0..MaxVal}
Args == {Num(n) : n \in 0..MaxArg}
Objs == 1..NumObjs
Keys == 0..MaxCount

\* plain (non-ref) variables of the examples:
\*   x, y, z  let-declared numbers;  o  let-declared holder of an object;
\*   count    the counter of the side-effect example;
\*   a        a let-declared variable whose declaration has not executed yet;
\*   d        a var-declared variable whose var statement has not executed yet.
VarNames == {"x", "y", "z", "o", "count", "a", "d"}
\* ref-declared bindings: p, q in the general examples; first, second, third,
\* max, w in the max example.
BindNames == {"p", "q", "first", "second", "third", "max", "w"}

\* ---- storage locations: what the accessor pair of a Reference closes over
NoLoc == [k |-> "none", name |-> "", recv |-> Undef, key |-> 0]
VarLoc(n) == [k |-> "var", name |-> n, recv |-> Undef, key |-> 0]
PropLoc(o, key) == [k |-> "prop", name |-> "", recv |-> o, key |-> key]

\* ---- Reference objects: the location the accessor pair closes over, and
\* whether there is a setter
NoRef == [loc |-> NoLoc, mutable |-> FALSE]
MkRef(loc, mutable) == [loc |-> loc, mutable |-> mutable]

\* ---- completions: a value, a Reference, or a thrown error
Comp(v) == [err |-> "none", isRef |-> FALSE, ref |-> NoRef, val |-> v, ty |-> ""]
CompRef(R) == [err |-> "none", isRef |-> TRUE, ref |-> R, val |-> Undef, ty |-> ""]
CompType(s) == [err |-> "none", isRef |-> FALSE, ref |-> NoRef, val |-> Undef, ty |-> s]
Throw(e) == [err |-> e, isRef |-> FALSE, ref |-> NoRef, val |-> Undef, ty |-> ""]

\* ---- ref-declared bindings: declared or not, const ref or not, the
\* Reference dereferenced (or none: undefined / null).  was is bookkeeping
\* only: the Reference the binding dereferenced before its last ref assignment.
Undeclared == [decl |-> FALSE, const |-> FALSE, abs |-> TRUE, ref |-> NoRef, was |-> NoRef]
Bound(c, R) == [decl |-> TRUE, const |-> c, abs |-> FALSE, ref |-> R, was |-> NoRef]
Absent(c) == [decl |-> TRUE, const |-> c, abs |-> TRUE, ref |-> NoRef, was |-> NoRef]

St == [env |-> env, heap |-> heap, refs |-> refs, binds |-> binds]
Out(S, r) == [S |-> S, r |-> r]

\* ---- the host binding store ------------------------------------------------

\* typeof of a value (host semantics)
TypeOf(v) == IF v.t = "null" THEN "object" ELSE v.t

\* A variable is "tdz" (let-declared, declaration not executed yet), "var"
\* (var-declared and hoisted, var statement not executed yet: its value is
\* undefined and it has no TDZ) or "init".

\* variant of VarGet: a hoisted var is given a TDZ like a let
VarGetStrict(S, n) ==
    IF S.env[n].st # "init" THEN Throw("ReferenceError") ELSE Comp(S.env[n].val)

\* read of a plain variable: a let-declared variable whose declaration has
\* not executed is in its TDZ
VarGet(S, n) ==
    IF S.env[n].st = "tdz" THEN Throw("ReferenceError") ELSE Comp(S.env[n].val)

\* assignment to a plain variable
VarSet(S, n, v) ==
    IF S.env[n].st = "tdz"
    THEN Out(S, Throw("ReferenceError"))
    ELSE Out([S EXCEPT !.env[n].val = v], Comp(v))

\* o[p] with o and p already evaluated
PropGet(S, o, key) ==
    IF o.t \in {"undefined", "null"} THEN Throw("TypeError")
    ELSE IF o.t = "object" THEN Comp(S.heap[o.v][key])
    ELSE Comp(Undef)

\* o[p] = v with o and p already evaluated
PropSet(S, o, key, v) ==
    IF o.t = "object"
    THEN Out([S EXCEPT !.heap[o.v][key] = v], Comp(v))
    ELSE Out(S, Throw("TypeError"))

\* ---- Reference objects -----------------------------------------------------

\* the getter a Reference closes over:  () => x   or   () => o[p]
LocGet(S, loc) ==
    IF loc.k = "var" THEN VarGet(S, loc.name) ELSE PropGet(S, loc.recv, loc.key)

\* the setter a Reference closes over:  _ => x = _   or   _ => o[p] = _
LocSet(S, loc, v) ==
    IF loc.k = "var" THEN VarSet(S, loc.name, v) ELSE PropSet(S, loc.recv, loc.key, v)

\* variant of RefGet: the property access is evaluated again at each read,
\* from the variables o and count as they are now
RefGetLazy(S, R) ==
    IF R.loc.k = "prop"
    THEN PropGet(S, S.env["o"].val, S.env["count"].val.v)
    ELSE LocGet(S, R.loc)

\* r.value
RefGet(S, R) == LocGet(S, R.loc)

\* variant of RefSet: the const Reference is given a setter too
RefSetAlways(S, R, v) == LocSet(S, R.loc, v)

\* r.value = v : a `const ref` Reference has no setter
RefSet(S, R, v) ==
    IF R.mutable THEN LocSet(S, R.loc, v) ELSE Out(S, Throw("TypeError"))

\* ---- ref expressions -------------------------------------------------------

\* variant of RefExprId: the variable is read when the Reference is taken
RefExprIdEager(S, n, c) ==
    LET R == MkRef(VarLoc(n), ~c)
    IN  IF S.env[n].st = "tdz" THEN Out(S, Throw("ReferenceError"))
        ELSE Out([S EXCEPT !.refs = @ \cup {R}], CompRef(R))

\* `ref n` / `const ref n`, n a plain variable: a Reference for the binding;
\* nothing is read, so no TDZ check happens here
RefExprId(S, n, c) ==
    LET R == MkRef(VarLoc(n), ~c)
    IN  Out([S EXCEPT !.refs = @ \cup {R}], CompRef(R))

\* `ref n.key` / `ref n[key]` with a constant key: the receiver n is evaluated
\* immediately, the Reference is created for the property access
RefExprProp(S, n, key, c) ==
    LET o == VarGet(S, n)
        R == MkRef(PropLoc(o.val, key), ~c)
    IN  IF o.err # "none" THEN Out(S, o)
        ELSE Out([S EXCEPT !.refs = @ \cup {R}], CompRef(R))

\* `ref n[cnt++]`: receiver, then the key expression, each evaluated once,
\* when the Reference is taken
RefExprElemInc(S, n, cnt, c) ==
    LET o == VarGet(S, n)
        i == VarGet(S, cnt)
        S1 == VarSet(S, cnt, Num(i.val.v + 1)).S
        R == MkRef(PropLoc(o.val, i.val.v), ~c)
    IN  IF o.err # "none" THEN Out(S, o)
        ELSE IF i.err # "none" THEN Out(S, i)
        ELSE Out([S1 EXCEPT !.refs = @ \cup {R}], CompRef(R))

\* variant of RefExprBind: `ref b` of a const ref binding is let through
RefExprBindLax(S, b, c) ==
    LET B == S.binds[b]
        R == MkRef(B.ref.loc, ~c)
    IN  IF B.abs THEN Out(S, Comp(Undef))
        ELSE Out([S EXCEPT !.refs = @ \cup {R}], CompRef(R))

\* `ref b` / `const ref b`, b a ref-declared binding
RefExprBind(S, b, c) ==
    LET B == S.binds[b]
        R == MkRef(B.ref.loc, ~c)
    IN  IF B.abs THEN Out(S, Comp(Undef))
        ELSE IF B.const /\ ~c THEN Out(S, Throw("TypeError"))
        ELSE Out([S EXCEPT !.refs = @ \cup {R}], CompRef(R))

\* ---- ref declarations ------------------------------------------------------

\* variant of DeclareRef: a value that is no Reference is accepted when the
\* binding is initialised, the binding being unusable afterwards
DeclareRefLate(S, b, c, rhs) ==
    IF ~rhs.isRef
    THEN Out([S EXCEPT !.binds[b] = Absent(c)], Comp(Undef))
    ELSE IF ~c /\ ~rhs.ref.mutable
         THEN Out(S, Throw("TypeError"))
         ELSE Out([S EXCEPT !.binds[b] = Bound(c, rhs.ref)], Comp(Undef))

\* `let ref b = rhs` (c = FALSE), `const ref b = rhs` (c = TRUE), and the
\* initialisation of a `ref b` / `const ref b` parameter with argument rhs
DeclareRef(S, b, c, rhs) ==
    IF ~rhs.isRef
    THEN IF rhs.val \in {Undef, Null}
         THEN Out([S EXCEPT !.binds[b] = Absent(c)], Comp(Undef))
         ELSE Out(S, Throw("TypeError"))
    ELSE IF ~c /\ ~rhs.ref.mutable
         THEN Out(S, Throw("TypeError"))
         ELSE Out([S EXCEPT !.binds[b] = Bound(c, rhs.ref)], Comp(Undef))

\* variant of DeclareWithDefault: the default is dropped when the variable
\* it refers to holds undefined
DeclareWithDefaultByValue(S, b, c, arg, n) ==
    LET d == RefExprId(S, n, FALSE)
    IN  IF ~arg.isRef /\ arg.val = Undef
        THEN IF S.env[n].val = Undef
             THEN DeclareRef(S, b, c, arg)
             ELSE DeclareRef(d.S, b, c, d.r)
        ELSE DeclareRef(S, b, c, arg)

\* initialisation of a parameter `ref b = ref n` with argument arg: the
\* default initialiser is evaluated when the argument is undefined
DeclareWithDefault(S, b, c, arg, n) ==
    LET d == RefExprId(S, n, FALSE)
    IN  IF ~arg.isRef /\ arg.val = Undef
        THEN DeclareRef(d.S, b, c, d.r)
        ELSE DeclareRef(S, b, c, arg)

\* read of a ref-declared binding
BindGet(S, b) ==
    IF S.binds[b].abs THEN Throw("ReferenceError") ELSE RefGet(S, S.binds[b].ref)

\* variant of BindSet: the binding holds a copy of the value, the assignment
\* stays local to it
BindSetCopy(S, b, v) ==
    IF S.binds[b].const THEN Out(S, Throw("TypeError"))
    ELSE IF S.binds[b].abs THEN Out(S, Throw("ReferenceError"))
    ELSE Out(S, Comp(v))

\* assignment to a ref-declared binding
BindSet(S, b, v) ==
    IF S.binds[b].const THEN Out(S, Throw("TypeError"))
    ELSE IF S.binds[b].abs THEN Out(S, Throw("ReferenceError"))
    ELSE RefSet(S, S.binds[b].ref, v)

\* variant of BindTypeof: typeof reads the binding like any other expression
BindTypeofDeref(S, b) ==
    LET r == RefGet(S, S.binds[b].ref)
    IN  IF S.binds[b].abs THEN Throw("ReferenceError")
        ELSE IF r.err # "none" THEN r
        ELSE CompType(TypeOf(r.val))

\* typeof b
BindTypeof(S, b) ==
    LET r == RefGet(S, S.binds[b].ref)
    IN  IF S.binds[b].abs THEN CompType("undefined")
        ELSE IF r.err # "none" THEN r
        ELSE CompType(TypeOf(r.val))

\* ---- the max example ---------------------------------------------------------

\* variant of MaxFn: the first comparison picks the smaller of the two
MaxFnSwapped(S, a1, a2, a3) ==
    LET S1 == DeclareRef(S, "first", FALSE, a1).S
        S2 == DeclareRef(S1, "second", FALSE, a2).S
        S3 == DeclareRef(S2, "third", FALSE, a3).S
        e1 == IF BindGet(S3, "first").val.v > BindGet(S3, "second").val.v
              THEN RefExprBind(S3, "second", FALSE)
              ELSE RefExprBind(S3, "first", FALSE)
        S4 == DeclareRef(e1.S, "max", FALSE, e1.r).S
        e2 == IF BindGet(S4, "max").val.v > BindGet(S4, "third").val.v
              THEN RefExprBind(S4, "max", FALSE)
              ELSE RefExprBind(S4, "third", FALSE)
    IN  Out([e2.S EXCEPT !.binds = S.binds], e2.r)

\* function max(ref first, ref second, ref third) {
\*   let ref max = first > second ? ref first : ref second;
\*   return max > third ? ref max : ref third;
\* }
\* called with the arguments a1, a2, a3; the bindings of the call are gone
\* when it returns
MaxFn(S, a1, a2, a3) ==
    LET S1 == DeclareRef(S, "first", FALSE, a1).S
        S2 == DeclareRef(S1, "second", FALSE, a2).S
        S3 == DeclareRef(S2, "third", FALSE, a3).S
        e1 == IF BindGet(S3, "first").val.v > BindGet(S3, "second").val.v
              THEN RefExprBind(S3, "first", FALSE)
              ELSE RefExprBind(S3, "second", FALSE)
        S4 == DeclareRef(e1.S, "max", FALSE, e1.r).S
        e2 == IF BindGet(S4, "max").val.v > BindGet(S4, "third").val.v
              THEN RefExprBind(S4, "max", FALSE)
              ELSE RefExprBind(S4, "third", FALSE)
    IN  Out([e2.S EXCEPT !.binds = S.binds], e2.r)

\* ---- ref assignments -------------------------------------------------------

\* variant of RefAssign: `ref t = rhs` taken for the plain assignment
\* `t = rhs.value`
RefAssignAsWrite(S, t, rhs) ==
    IF t \notin BindNames \/ ~S.binds[t].decl THEN Out(S, Throw("SyntaxError"))
    ELSE IF S.binds[t].const THEN Out(S, Throw("TypeError"))
    ELSE IF ~rhs.isRef
    THEN IF rhs.val \in {Undef, Null}
         THEN Out([S EXCEPT !.binds[t] = [Absent(FALSE) EXCEPT !.was = S.binds[t].ref]],
                  Comp(Undef))
         ELSE Out(S, Throw("TypeError"))
    ELSE IF ~rhs.ref.mutable THEN Out(S, Throw("TypeError"))
    ELSE IF S.binds[t].abs \/ RefGet(S, rhs.ref).err # "none"
    THEN Out(S, Throw("ReferenceError"))
    ELSE RefSet(S, S.binds[t].ref, RefGet(S, rhs.ref).val)

\* variant of RefAssign: the mutability of the assigned Reference is not looked at
RefAssignLax(S, t, rhs) ==
    IF t \notin BindNames \/ ~S.binds[t].decl THEN Out(S, Throw("SyntaxError"))
    ELSE IF S.binds[t].const THEN Out(S, Throw("TypeError"))
    ELSE IF ~rhs.isRef
    THEN IF rhs.val \in {Undef, Null}
         THEN Out([S EXCEPT !.binds[t] = [Absent(FALSE) EXCEPT !.was = S.binds[t].ref]],
                  Comp(Undef))
         ELSE Out(S, Throw("TypeError"))
    ELSE Out([S EXCEPT !.binds[t] = [Bound(FALSE, rhs.ref) EXCEPT !.was = S.binds[t].ref]],
             rhs)

\* `ref t = rhs`
RefAssign(S, t, rhs) ==
    IF t \notin BindNames \/ ~S.binds[t].decl THEN Out(S, Throw("SyntaxError"))
    ELSE IF S.binds[t].const THEN Out(S, Throw("TypeError"))
    ELSE IF ~rhs.isRef
    THEN IF rhs.val \in {Undef, Null}
         THEN Out([S EXCEPT !.binds[t] = [Absent(FALSE) EXCEPT !.was = S.binds[t].ref]],
                  Comp(Undef))
         ELSE Out(S, Throw("TypeError"))
    ELSE IF ~rhs.ref.mutable THEN Out(S, Throw("TypeError"))
    ELSE Out([S EXCEPT !.binds[t] = [Bound(FALSE, rhs.ref) EXCEPT !.was = S.binds[t].ref]],
             rhs)

\* ---- actions ---------------------------------------------------------------

\* what the program did last: the operation, the path it went through (a
\* plain name, a Reference's .value, a ref-declared binding), the location a
\* write was aimed at, the value written, and the completion
Did(op, via, name, R, loc, arg, res) ==
    [op |-> op, via |-> via, name |-> name, ref |-> R, loc |-> loc, arg |-> arg, res |-> res]

Commit(o, l) ==
    /\ env' = o.S.env
    /\ heap' = o.S.heap
    /\ refs' = o.S.refs
    /\ binds' = o.S.binds
    /\ last' = l
    /\ gulp' = gulp

\* the arguments a ref declaration or ref assignment can be given: a Reference
\* the program holds, undefined, null, or a number
RhsSet == {CompRef(R) : R \in refs} \cup {Comp(Undef), Comp(Null), Comp(Num(0))}

\* room for the Reference a ref expression creates
Room(o) == Cardinality(o.S.refs) <= MaxRefs

\* the two forms of a ref expression
RefOp(c) == IF c THEN "constref" ELSE "ref"

\* n = v
WriteVar(n, v) ==
    LET o == VarSet(St, n, v)
    IN  Commit(o, Did("write", "direct", n, NoRef, VarLoc(n), v, o.r))

\* n.key = v
WriteProp(n, key, v) ==
    LET r == VarGet(St, n)
        o == IF r.err # "none" THEN Out(St, r) ELSE PropSet(St, r.val, key, v)
    IN  Commit(o, Did("write", "direct", n, NoRef, PropLoc(r.val, key), v, o.r))

\* ref n   /   const ref n
TakeRef(n, c) ==
    LET o == RefExprId(St, n, c)
    IN  Room(o) /\ Commit(o, Did(RefOp(c), "direct", n, NoRef, NoLoc, Undef, o.r))

\* ref n.key   /   const ref n.key
TakeRefProp(n, key, c) ==
    LET o == RefExprProp(St, n, key, c)
    IN  Room(o) /\ Commit(o, Did(RefOp(c), "member", n, NoRef, NoLoc, Undef, o.r))

\* ref b   /   const ref b, b ref-declared
TakeRefBind(b, c) ==
    LET o == RefExprBind(St, b, c)
    IN  /\ binds[b].decl
        /\ Room(o)
        /\ Commit(o, Did(RefOp(c), "bind", b, NoRef, NoLoc, Undef, o.r))

\* let ref b = rhs   /   const ref b = rhs
Declare(b, c, rhs) ==
    LET o == DeclareRef(St, b, c, rhs)
    IN  /\ ~binds[b].decl
        /\ Commit(o, Did("declare", IF c THEN "const" ELSE "let", b, rhs.ref, NoLoc, rhs.val, o.r))

\* ref t = rhs
Reseat(t, rhs) ==
    LET o == RefAssign(St, t, rhs)
    IN  Commit(o, Did("reseat", "bind", t, rhs.ref, NoLoc, rhs.val, o.r))

\* R.value
ReadRef(R) ==
    Commit(Out(St, RefGet(St, R)), Did("read", "ref", "", R, R.loc, Undef, RefGet(St, R)))

\* R.value = v
WriteRef(R, v) ==
    LET o == RefSet(St, R, v)
    IN  Commit(o, Did("write", "ref", "", R, R.loc, v, o.r))

\* b
ReadBind(b) ==
    /\ binds[b].decl
    /\ Commit(Out(St, BindGet(St, b)),
              Did("read", "bind", b, binds[b].ref, binds[b].ref.loc, Undef, BindGet(St, b)))

\* b = v
WriteBind(b, v) ==
    LET o == BindSet(St, b, v)
    IN  /\ binds[b].decl
        /\ Commit(o, Did("write", "bind", b, binds[b].ref, binds[b].ref.loc, v, o.r))

\* typeof b
TypeofBind(b) ==
    /\ binds[b].decl
    /\ Commit(Out(St, BindTypeof(St, b)),
              Did("typeof", "bind", b, binds[b].ref, binds[b].ref.loc, Undef, BindTypeof(St, b)))

\* ---- the general program: a variable x, an object held by o, two ref
\* bindings p and q

Env0 ==
    [n \in VarNames |->
        IF n = "a" THEN [st |-> "tdz", val |-> Undef]
        ELSE IF n = "d" THEN [st |-> "var", val |-> Undef]
        ELSE IF n = "o" THEN [st |-> "init", val |-> Obj(1)]
        ELSE [st |-> "init", val |-> Num(0)]]

Init ==
    /\ env = Env0
    /\ heap = [o \in Objs |-> [k \in Keys |-> Num(0)]]
    /\ refs = {}
    /\ binds = [b \in BindNames |-> Undeclared]
    /\ last = Did("init", "", "", NoRef, NoLoc, Undef, Comp(Undef))
    /\ gulp = Gulp0(FALSE)

Binds1 == {"p", "q"}

\* aliasing and immutability: direct writes, ref expressions, ref
\* declarations, reads and writes through References and bindings
Next ==
    \/ \E v \in Nums : WriteVar("x", v)
    \/ \E v \in Nums : WriteProp("o", 0, v)
    \/ \E c \in BOOLEAN : TakeRef("x", c)
    \/ \E c \in BOOLEAN : TakeRefProp("o", 0, c)
    \/ \E b \in Binds1, c \in BOOLEAN : TakeRefBind(b, c)
    \/ \E b \in Binds1, c \in BOOLEAN, rhs \in RhsSet : Declare(b, c, rhs)
    \/ \E R \in refs : ReadRef(R)
    \/ \E R \in refs, v \in Nums : WriteRef(R, v)
    \/ \E b \in Binds1 : ReadBind(b)
    \/ \E b \in Binds1, v \in Nums : WriteBind(b, v)

Spec == Init /\ [][Next]_vars

\* reseating: ref assignments among the declarations, reads and writes
NextReseat ==
    \/ \E c \in BOOLEAN : TakeRef("x", c)
    \/ \E c \in BOOLEAN : TakeRefProp("o", 0, c)
    \/ \E b \in Binds1, c \in BOOLEAN, rhs \in RhsSet : Declare(b, c, rhs)
    \/ \E t \in Binds1 \cup {"x"}, rhs \in RhsSet : Reseat(t, rhs)
    \/ \E b \in Binds1 : ReadBind(b)
    \/ \E b \in Binds1, v \in Nums : WriteBind(b, v)

SpecReseat == Init /\ [][NextReseat]_vars

\* ---- forward references: a let-declared a and a var-declared d whose
\* statements execute at some point of the program

\* let n = v executes
LetDecl(n, v) ==
    /\ env[n].st = "tdz"
    /\ Commit(Out([St EXCEPT !.env[n] = [st |-> "init", val |-> v]], Comp(Undef)),
              Did("let", "direct", n, NoRef, VarLoc(n), v, Comp(Undef)))

\* var n = v executes
VarStmt(n, v) ==
    /\ env[n].st = "var"
    /\ Commit(Out([St EXCEPT !.env[n] = [st |-> "init", val |-> v]], Comp(Undef)),
              Did("var", "direct", n, NoRef, VarLoc(n), v, Comp(Undef)))

RhsRefs == {CompRef(R) : R \in refs}

NextTDZ ==
    \/ LetDecl("a", Obj(1))
    \/ VarStmt("d", Obj(2))
    \/ \E n \in {"a", "d"}, c \in BOOLEAN : TakeRef(n, c)
    \/ \E n \in {"a", "d"} : TakeRefProp(n, 0, FALSE)
    \/ \E b \in Binds1, c \in BOOLEAN, rhs \in RhsRefs : Declare(b, c, rhs)
    \/ \E R \in refs : ReadRef(R)
    \/ \E R \in refs : WriteRef(R, Num(1))
    \/ \E b \in Binds1 : ReadBind(b)
    \/ \E b \in Binds1 : WriteBind(b, Num(1))

SpecTDZ == Init /\ [][NextTDZ]_vars

\* ---- absent references: ref declarations and parameters given undefined
\* or null, and the defaulted parameter of  function g(ref y = ref x) {}

\* g(arg), the parameter being the binding b
CallG(b, arg) ==
    LET o == DeclareWithDefault(St, b, FALSE, arg, "x")
    IN  /\ ~binds[b].decl
        /\ Room(o)
        /\ Commit(o, Did("call", "g", b, arg.ref, NoLoc, arg.val, o.r))

NextAbsent ==
    \/ \E v \in Nums \cup {Undef} : WriteVar("x", v)
    \/ \E c \in BOOLEAN : TakeRef("x", c)
    \/ \E b \in Binds1, c \in BOOLEAN, rhs \in RhsSet : Declare(b, c, rhs)
    \/ \E rhs \in RhsSet : CallG("q", rhs)
    \/ \E b \in Binds1 : TypeofBind(b)
    \/ \E b \in Binds1 : ReadBind(b)

SpecAbsent == Init /\ [][NextAbsent]_vars

\* ---- side effects: ref o[count++], with o and count reassigned afterwards

\* ref n[cnt++]
TakeRefElem(n, cnt) ==
    LET o == RefExprElemInc(St, n, cnt, FALSE)
    IN  /\ env[cnt].val.v < MaxCount
        /\ Room(o)
        /\ Commit(o, Did("refelem", "member", n, NoRef, NoLoc, Undef, o.r))

NextSide ==
    \/ \E n \in {"o", "a"} : TakeRefElem(n, "count")
    \/ \E k \in Objs : WriteVar("o", Obj(k))
    \/ WriteVar("count", Num(0))
    \/ \E rhs \in RhsRefs : Declare("p", FALSE, rhs)
    \/ \E R \in refs : ReadRef(R)
    \/ \E R \in refs : WriteRef(R, Num(1))
    \/ ReadBind("p")
    \/ WriteBind("p", Num(1))

SpecSide == Init /\ [][NextSide]_vars

\* ---- the max example:  let x, y, z;  let ref w = max(ref x, ref y, ref z)

InitMax ==
    /\ env \in {[Env0 EXCEPT !["x"].val = vx, !["y"].val = vy, !["z"].val = vz] :
                  vx \in Args, vy \in Args, vz \in Args}
    /\ heap = [o \in Objs |-> [k \in Keys |-> Num(0)]]
    /\ refs = {}
    /\ binds = [b \in BindNames |-> Undeclared]
    /\ last = Did("init", "", "", NoRef, NoLoc, Undef, Comp(Undef))
    /\ gulp = Gulp0(FALSE)

\* let ref w = max(ref x, ref y, ref z)
CallMax ==
    LET rx == RefExprId(St, "x", FALSE)
        ry == RefExprId(rx.S, "y", FALSE)
        rz == RefExprId(ry.S, "z", FALSE)
        m == MaxFn(rz.S, rx.r, ry.r, rz.r)
        o == DeclareRef(m.S, "w", FALSE, m.r)
    IN  /\ ~binds["w"].decl
        /\ Commit(o, Did("call", "max", "w", m.r.ref, NoLoc, Undef, o.r))

NextMax ==
    \/ CallMax
    \/ \E n \in {"x", "y", "z"}, v \in Args : WriteVar(n, v)
    \/ ReadBind("w")
    \/ \E v \in Args : WriteBind("w", v)

SpecMax == InitMax /\ [][NextMax]_vars

\* ---- the build script: a run of `gulp update-pages` ------------------------

\* how a subprocess can end: an "error" event, or a "close" event whose code
\* is the exit code, or null when a signal terminated the subprocess (null is
\* kept as code 0 with how = "signal")
Exited(n) == [how |-> "exit", code |-> n]
Endings ==
    {Exited(n) : n \in 0..MaxCode}
        \cup {[how |-> "signal", code |-> 0], [how |-> "error", code |-> 0]}

\* exec(cmd, args): the executor of the promise logs through gutil, then
\* spawns.  When gutil does not resolve, gutil.log(...) throws inside the
\* executor: the promise is rejected and nothing is spawned.
Exec(G, cmd) ==
    IF G.gutil
    THEN [spawned |-> TRUE, G |-> [G EXCEPT !.log = Append(@, cmd)]]
    ELSE [spawned |-> FALSE, G |-> G]

\* the promise of exec: reject(e) on "error"; on "close",
\* code ? reject(...) : resolve(), where 0 and null are both falsy
Resolves(code) ==
    /\ code.how # "error"
    /\ code.how = "signal" \/ code.code = 0

RefsIdle == UNCHANGED <<env, heap, refs, binds, last>>

\* task update-pages:checkout starts: Promise.resolve().then(...) queues the
\* callback
StartCheckout ==
    /\ gulp.checkout = "idle" /\ ~gulp.stopped
    /\ gulp' = [gulp EXCEPT !.checkout = "then"]
    /\ RefsIdle

\* the callback of update-pages:checkout runs: git -C ./pages pull --no-stat
CheckoutThen ==
    /\ gulp.checkout = "then"
    /\ LET e == Exec(gulp, "pull")
       IN  gulp' = IF e.spawned
                   THEN [e.G EXCEPT !.checkout = "pull"]
                   ELSE [e.G EXCEPT !.checkout = "failed", !.stopped = TRUE]
    /\ RefsIdle

\* the git pull subprocess ends
PullEnds(code) ==
    /\ gulp.checkout = "pull"
    /\ gulp' = IF Resolves(code)
               THEN [gulp EXCEPT !.codes = Append(@, code), !.checkout = "done"]
               ELSE [gulp EXCEPT !.codes = Append(@, code), !.checkout = "failed",
                                 !.stopped = TRUE]
    /\ RefsIdle

\* task build starts
StartBuild ==
    /\ gulp.build = "idle" /\ ~gulp.stopped
    /\ gulp' = [gulp EXCEPT !.build = "running"]
    /\ RefsIdle

\* the stream of task build ends, or fails
BuildEnds(ok) ==
    /\ gulp.build = "running"
    /\ gulp' = IF ok THEN [gulp EXCEPT !.build = "done"]
               ELSE [gulp EXCEPT !.build = "failed", !.stopped = TRUE]
    /\ RefsIdle

\* task update-pages:update starts, its dependencies update-pages:checkout
\* and build done: out/**/* is copied to pages
StartUpdate ==
    /\ gulp.update = "idle" /\ ~gulp.stopped
    /\ gulp.checkout = "done" /\ gulp.build = "done"
    /\ gulp' = [gulp EXCEPT !.update = "running"]
    /\ RefsIdle

\* the copy ends, or fails
UpdateEnds(ok) ==
    /\ gulp.update = "running"
    /\ gulp' = IF ok THEN [gulp EXCEPT !.update = "done"]
               ELSE [gulp EXCEPT !.update = "failed", !.stopped = TRUE]
    /\ RefsIdle

\* task update-pages:checkin starts, its dependency update-pages:update
\* done: Promise.resolve().then(...) queues the first callback
StartCheckin ==
    /\ gulp.checkin = "idle" /\ ~gulp.stopped
    /\ gulp.update = "done"
    /\ gulp' = [gulp EXCEPT !.checkin = "then"]
    /\ RefsIdle

\* the first callback of update-pages:checkin runs: git -C ./pages add .
CheckinThen ==
    /\ gulp.checkin = "then"
    /\ LET e == Exec(gulp, "add")
       IN  gulp' = IF e.spawned
                   THEN [e.G EXCEPT !.checkin = "add"]
                   ELSE [e.G EXCEPT !.checkin = "failed", !.stopped = TRUE]
    /\ RefsIdle

\* the step after a git subprocess of update-pages:checkin
After(cmd) == IF cmd = "add" THEN "commit" ELSE IF cmd = "commit" THEN "push" ELSE "done"

\* the git subprocess update-pages:checkin waits for ends: the next .then of
\* the chain runs when the promise resolved
GitEnds(code) ==
    /\ gulp.checkin \in {"add", "commit", "push"}
    /\ LET G == [gulp EXCEPT !.codes = Append(@, code)]
           nxt == After(gulp.checkin)
           e == Exec(G, nxt)
       IN  gulp' = IF ~Resolves(code)
                   THEN [G EXCEPT !.checkin = "failed", !.stopped = TRUE]
                   ELSE IF nxt = "done" THEN [G EXCEPT !.checkin = "done"]
                   ELSE IF e.spawned THEN [e.G EXCEPT !.checkin = nxt]
                   ELSE [e.G EXCEPT !.checkin = "failed", !.stopped = TRUE]
    /\ RefsIdle

\* task update-pages, which has no body, runs once its dependency
\* update-pages:checkin is done
UpdatePages ==
    /\ gulp.pages = "idle" /\ ~gulp.stopped
    /\ gulp.checkin = "done"
    /\ gulp' = [gulp EXCEPT !.pages = "done"]
    /\ RefsIdle

InitGulp ==
    /\ env = Env0
    /\ heap = [o \in Objs |-> [k \in Keys |-> Num(0)]]
    /\ refs = {}
    /\ binds = [b \in BindNames |-> Undeclared]
    /\ last = Did("init", "", "", NoRef, NoLoc, Undef, Comp(Undef))
    /\ gulp \in {Gulp0(g) : g \in BOOLEAN}

NextGulp ==
    \/ StartCheckout
    \/ CheckoutThen
    \/ \E code \in Endings : PullEnds(code)
    \/ StartBuild
    \/ \E ok \in BOOLEAN : BuildEnds(ok)
    \/ StartUpdate
    \/ \E ok \in BOOLEAN : UpdateEnds(ok)
    \/ StartCheckin
    \/ CheckinThen
    \/ \E code \in Endings : GitEnds(code)
    \/ UpdatePages

SpecGulp == InitGulp /\ [][NextGulp]_vars

\* ---- C1 --------------------------------------------------------------------

\* the bindings that dereference a Reference to location loc
BindsTo(loc) == {b \in BindNames : binds[b].decl /\ ~binds[b].abs /\ binds[b].ref.loc = loc}

\* C1 (alias coherence): right after a write of v that succeeded, made to a
\* location directly, through .value of a Reference or through a ref binding,
\* a read of the location made directly, through .value of every Reference to
\* it (mutable or const) and through every ref / const ref binding to it
\* yields v; and at all times the References and bindings to one location
\* read the same value.
C1_AliasCoherence ==
    /\ (last.op = "write" /\ last.res.err = "none") =>
          /\ LocGet(St, last.loc) = Comp(last.arg)
          /\ \A R \in refs : R.loc = last.loc => RefGet(St, R) = Comp(last.arg)
          /\ \A b \in BindsTo(last.loc) : BindGet(St, b) = Comp(last.arg)
    /\ \A R \in refs :
          /\ \A b \in BindsTo(R.loc) : BindGet(St, b) = RefGet(St, R)
          /\ \A Q \in refs : Q.loc = R.loc => RefGet(St, Q) = RefGet(St, R)

\* a write through a ref binding has just succeeded, to a property that a
\* const Reference and a const ref binding alias too
C1_Witness ==
    /\ last.op = "write" /\ last.via = "bind" /\ last.res.err = "none"
    /\ last.arg = Num(1) /\ last.loc.k = "prop"
    /\ \E R \in refs : ~R.mutable /\ R.loc = last.loc
    /\ \E b \in BindsTo(last.loc) : binds[b].const

\* ---- C4 --------------------------------------------------------------------

\* the write just made went through a const ref binding or a const Reference
ConstPath(l) ==
    \/ l.via = "bind" /\ binds[l.name].const
    \/ l.via = "ref" /\ ~l.ref.mutable

StNext == [env |-> env', heap |-> heap', refs |-> refs', binds |-> binds']

\* the step changed no storage location other than loc
OnlyAt(loc) ==
    /\ \A n \in VarNames : VarLoc(n) # loc => env'[n] = env[n]
    /\ \A o \in Objs, k \in Keys : PropLoc(Obj(o), k) # loc => heap'[o][k] = heap[o][k]

\* C6 (reseating): a ref assignment changes no storage location, and when it
\* succeeds the binding dereferences the assigned Reference; a later read
\* through the binding reads the location of the Reference it dereferences
\* now, and a later write through it changes that location only, so the
\* location it dereferenced before the ref assignment keeps its value.
C6_Reseat ==
    [][/\ last'.op = "reseat" =>
            /\ env' = env /\ heap' = heap
            /\ (last'.res.err = "none" /\ last'.ref # NoRef) =>
                   binds'[last'.name].ref = last'.ref
       /\ (last'.op = "write" /\ last'.via = "bind" /\ last'.res.err = "none") =>
            LET B == binds[last'.name]
            IN  /\ OnlyAt(B.ref.loc)
                /\ LocGet(StNext, B.ref.loc) = Comp(last'.arg)
                /\ (B.was # NoRef /\ B.was.loc # B.ref.loc) =>
                       LocGet(StNext, B.was.loc) = LocGet(St, B.was.loc)
       /\ (last'.op = "read" /\ last'.via = "bind" /\ ~binds[last'.name].abs) =>
            last'.res = LocGet(St, binds[last'.name].ref.loc)
      ]_vars

\* after a ref assignment moved the binding from one location to another, a
\* write through the binding stored a value the old location does not hold
C6_Witness ==
    /\ last.op = "write" /\ last.via = "bind" /\ last.res.err = "none"
    /\ binds[last.name].was # NoRef
    /\ binds[last.name].was.loc # binds[last.name].ref.loc
    /\ LocGet(St, binds[last.name].ref.loc) = Comp(last.arg)
    /\ LocGet(St, binds[last.name].was.loc) # Comp(last.arg)

\* ---- C7 --------------------------------------------------------------------

\* the target of the ref assignment is a declared, mutable ref binding
GoodTarget(t) == t \in BindNames /\ binds[t].decl /\ ~binds[t].const

\* C7 (rejected ref assignments): a ref assignment whose target is not a
\* mutable ref declaration (a plain variable, an undeclared name, a const ref
\* binding) throws; on a mutable ref binding, assigning an immutable Reference
\* throws a TypeError and so does any value that is neither a Reference nor
\* undefined nor null; a rejected ref assignment leaves every binding and
\* every storage location as they were; a mutable Reference, undefined and
\* null are accepted.
C7_ReseatRejected ==
    [][last'.op = "reseat" =>
          LET t == last'.name
              isRef == last'.ref # NoRef
              okRhs == IF isRef THEN last'.ref.mutable ELSE last'.arg \in {Undef, Null}
          IN  /\ ~GoodTarget(t) => last'.res.err # "none"
              /\ (GoodTarget(t) /\ ~okRhs) => last'.res.err = "TypeError"
              /\ (GoodTarget(t) /\ okRhs) => last'.res.err = "none"
              /\ last'.res.err # "none" =>
                     (binds' = binds /\ env' = env /\ heap' = heap)
      ]_vars

\* an immutable Reference was assigned to a mutable ref binding that
\* dereferences a Reference to another location: TypeError, binding kept
C7_Witness ==
    /\ last.op = "reseat" /\ last.res.err = "TypeError"
    /\ last.ref # NoRef /\ ~last.ref.mutable
    /\ GoodTarget(last.name) /\ ~binds[last.name].abs
    /\ binds[last.name].ref.loc # last.ref.loc

\* ---- C8 --------------------------------------------------------------------

\* the last operation was a read or a write through a Reference or a binding
Deref(l) == l.op \in {"read", "write"} /\ l.via \in {"ref", "bind"}

\* the path of the last operation can be written through
Writable(l) == l.ref.mutable /\ (l.via = "bind" => ~binds[l.name].const)

\* C8 (TDZ gating): taking `ref a` / `const ref a` of a let-declared a always
\* succeeds, also before a's declaration has executed, and so does a ref
\* declaration initialised with such a Reference; a read or write through the
\* Reference or the binding throws a ReferenceError while a is in its TDZ and
\* succeeds once the declaration has executed (a write given a writable
\* path); `ref a.x` taken while a is in its TDZ throws a ReferenceError when
\* the Reference is taken, and no Reference is created.
C8_TDZ ==
    /\ (last.op \in {"ref", "constref"} /\ last.via = "direct" /\ last.name = "a") =>
          (last.res.err = "none" /\ last.res.isRef /\ last.res.ref \in refs)
    /\ (last.op = "declare" /\ last.ref.loc = VarLoc("a")
            /\ (last.via = "const" \/ last.ref.mutable)) =>
          (last.res.err = "none" /\ binds[last.name] = Bound(last.via = "const", last.ref))
    /\ (Deref(last) /\ last.loc = VarLoc("a") /\ (last.op = "write" => Writable(last))) =>
          IF env["a"].st = "tdz"
          THEN last.res.err = "ReferenceError"
          ELSE last.res.err = "none"
    /\ (last.op \in {"ref", "constref"} /\ last.via = "member"
            /\ env[last.name].st = "tdz") =>
          (last.res.err = "ReferenceError" /\ ~last.res.isRef)
    /\ env["a"].st = "tdz" => \A R \in refs : R.loc.k = "prop" => R.loc.recv # Obj(1)

\* a write through a ref binding to a was attempted while a was in its TDZ
C8_Witness ==
    /\ last.op = "write" /\ last.via = "bind" /\ last.loc = VarLoc("a")
    /\ ~binds[last.name].const /\ last.ref.mutable
    /\ env["a"].st = "tdz"
    /\ last.res.err = "ReferenceError"

\* ---- C9 --------------------------------------------------------------------

\* the location of `ref d.x` taken before `var d = ...` has executed: the
\* receiver d was evaluated then, to undefined
EarlyMember == PropLoc(Undef, 0)

C2_EvaluatedOnce ==
    [][/\ last'.op = "refelem" =>
            IF last'.res.err = "none"
            THEN /\ env'["count"].val.v = env["count"].val.v + 1
                 /\ last'.res.ref.loc = PropLoc(env[last'.name].val, env["count"].val.v)
                 /\ last'.res.ref \in refs'
                 /\ heap' = heap
            ELSE env' = env /\ heap' = heap /\ refs' = refs
       /\ Deref(last') =>
            /\ env' = env
            /\ last'.loc = last'.ref.loc
            /\ last'.op = "read" =>
                  last'.res = PropGet(St, last'.ref.loc.recv, last'.ref.loc.key)
            /\ last'.op = "write" =>
                  /\ OnlyAt(last'.ref.loc)
                  /\ heap'[last'.ref.loc.recv.v][last'.ref.loc.key] = last'.arg
      ]_vars

\* a read through a ref binding returned the element written through it,
\* while o holds another object and count another index than those captured
C2_Witness ==
    /\ last.op = "read" /\ last.via = "bind" /\ last.res = Comp(Num(1))
    /\ last.loc.k = "prop"
    /\ last.loc.recv # env["o"].val
    /\ last.loc.key # env["count"].val.v
    /\ PropGet(St, env["o"].val, env["count"].val.v) = Comp(Num(0))

\* ---- C3 --------------------------------------------------------------------

\* the variable max(ref x, ref y, ref z) selects, by the README's comparisons
Selected(e) ==
    LET m == IF e["x"].val.v > e["y"].val.v THEN "x" ELSE "y"
    IN  IF e[m].val.v > e["z"].val.v THEN m ELSE "z"

\* C3 (transitive aliasing): the Reference max(ref x, ref y, ref z) returns,
\* built by `ref first`, `ref max`, ... inside the call, is a Reference to
\* one of the variables x, y, z themselves, the one the comparisons select,
\* which holds the maximum; the call changes no variable; and a write through
\* `let ref w = max(...)` changes that one variable and leaves the other two
\* as they were.
C3_MaxAliases ==
    [][/\ (last'.op = "call" /\ last'.via = "max") =>
            /\ last'.res.err = "none"
            /\ binds'["w"] = Bound(FALSE, MkRef(VarLoc(Selected(env)), TRUE))
            /\ \A n \in {"x", "y", "z"} :
                  env[Selected(env)].val.v >= env[n].val.v
            /\ env' = env /\ heap' = heap
            /\ \A b \in BindNames \ {"w"} : binds'[b] = binds[b]
       /\ (last'.op = "write" /\ last'.via = "bind" /\ last'.name = "w") =>
            /\ last'.res.err = "none"
            /\ binds["w"].ref.loc.k = "var"
            /\ binds["w"].ref.loc.name \in {"x", "y", "z"}
            /\ env'[binds["w"].ref.loc.name].val = last'.arg
            /\ \A n \in VarNames \ {binds["w"].ref.loc.name} : env'[n] = env[n]
      ]_vars

\* w aliases y, selected by the first comparison's else branch and kept by
\* the second; a write through w changed y and neither x nor z
C3_Witness ==
    /\ last.op = "write" /\ last.via = "bind" /\ last.name = "w"
    /\ last.loc = VarLoc("y")
    /\ env["y"].val = Num(0) /\ env["x"].val = Num(1) /\ env["z"].val = Num(1)

\* ---- C10 -------------------------------------------------------------------

\* the argument of the last declaration or call was undefined or null
Nullish(l) == l.ref = NoRef /\ l.arg \in {Undef, Null}

\* C10 (absent reference): a ref / const ref declaration or parameter given
\* undefined or null is installed without error; typeof of such a binding
\* succeeds with "undefined"; every read of it throws a ReferenceError; and
\* the parameter `ref y = ref x` of g, given undefined, dereferences a mutable
\* Reference to x whatever x holds (also undefined), while given null it is
\* absent.
C10_AbsentReference ==
    /\ (last.op = "declare" /\ Nullish(last)) =>
          (last.res.err = "none" /\ binds[last.name] = Absent(last.via = "const"))
    /\ (last.op = "typeof" /\ binds[last.name].abs) =>
          (last.res.err = "none" /\ last.res.ty = "undefined")
    /\ (last.op = "read" /\ last.via = "bind" /\ binds[last.name].abs) =>
          last.res.err = "ReferenceError"
    /\ (last.op = "call" /\ last.via = "g" /\ Nullish(last)) =>
          /\ last.res.err = "none"
          /\ binds[last.name] =
                IF last.arg = Undef THEN Bound(FALSE, MkRef(VarLoc("x"), TRUE))
                ELSE Absent(FALSE)

\* g(undefined) was called while x held undefined: the parameter dereferences
\* a Reference to x
C10_Witness ==
    /\ last.op = "call" /\ last.via = "g" /\ last.ref = NoRef /\ last.arg = Undef
    /\ env["x"].val = Undef
    /\ ~binds[last.name].abs /\ binds[last.name].ref.loc = VarLoc("x")

\* ---- C11 -------------------------------------------------------------------

\* the last declaration or call was given a value that is neither a Reference
\* nor undefined nor null
NonReference(l) ==
    l.op \in {"declare", "call"} /\ l.ref = NoRef /\ l.arg \notin {Undef, Null}

GitOrder == <<"pull", "add", "commit", "push">>

\* a task is under way
GulpRunning ==
    \/ gulp.checkout \in {"then", "pull"}
    \/ gulp.build = "running" \/ gulp.update = "running"
    \/ gulp.checkin \in {"then", "add", "commit", "push"}

\* the run is over: nothing is under way and nothing can start
GulpEnded ==
    /\ ~GulpRunning
    /\ \/ gulp.stopped
       \/ gulp.pages = "done"

\* no step of the run failed: every subprocess that ended exited with code 0,
\* and neither the build nor the copy failed
NothingFailed ==
    /\ \A i \in 1..Len(gulp.codes) : gulp.codes[i] = Exited(0)
    /\ gulp.build # "failed" /\ gulp.update # "failed"

\* the ordering and fail-stop part of C12: the copy starts only after the
\* checkout and the build are done; the git subprocesses are spawned in the
\* order pull, add, commit, push, each after the one before it closed with
\* exit code 0; a task waiting on exec is done exactly when its subprocess
\* closed with exit code 0.
GulpOrdered ==
    /\ gulp.update # "idle" => (gulp.checkout = "done" /\ gulp.build = "done")
    /\ gulp.checkin # "idle" => gulp.update = "done"
    /\ gulp.log = SubSeq(GitOrder, 1, Len(gulp.log))
    /\ Len(gulp.codes) <= Len(gulp.log)
    /\ \A i \in 1..Len(gulp.log) : \A j \in 1..(i - 1) :
          j <= Len(gulp.codes) /\ gulp.codes[j] = Exited(0)
    /\ gulp.checkout = "done" <=> (Len(gulp.codes) >= 1 /\ gulp.codes[1] = Exited(0))
    /\ gulp.checkin = "done" <=> (Len(gulp.codes) = Len(GitOrder)
                                    /\ gulp.codes[Len(GitOrder)] = Exited(0))
    /\ gulp.pages = "done" => gulp.checkin = "done"

\* C12 as stated: the ordering and fail-stop part, and: exec resolves when its
\* subprocess closes with exit code 0, so that a run in which every subprocess
\* exits with code 0 (and nothing else fails) has executed git push when it is
\* over.
C12_AsStated ==
    /\ GulpOrdered
    /\ (GulpEnded /\ NothingFailed) => gulp.log = GitOrder

\* no subprocess of the run was terminated by a signal
NoSignal == \A i \in 1..Len(gulp.codes) : gulp.codes[i].how # "signal"

\* C12 holds of the runs in which the identifier gutil resolves and no
\* subprocess is terminated by a signal
C12_WhenGutilResolves == (gulp.gutil /\ NoSignal) => C12_AsStated

\* with gutil resolving, a subprocess terminated by a signal is taken for a
\* success: the next git subprocess is spawned after it
C12_SignalTakenForSuccess ==
    \E i \in 1..Len(gulp.codes) :
        gulp.codes[i].how = "signal" /\ Len(gulp.log) > i

====
